---- MODULE Spec2Model ----
(***************************************************************************)
(* State-machine model of pl-supernode (src/app.py): the supervision of    *)
(* one flower-supernode child process by _plugin_main / _run_supernode,    *)
(* the two stream relay threads, the summary capture hook, the child       *)
(* registry CHILDREN and the SIGTERM/SIGINT handler.                       *)
(***************************************************************************)
EXTENDS Integers, Sequences, FiniteSets, TLC

(***************************************************************************)
(* Bounds of the model.                                                    *)
(***************************************************************************)
\* options.cid and options.total_clients range over -1 .. MaxClients
MaxClients == 1
\* total number of lines the child writes to stdout and stderr together
MaxLines == 2
\* number of lines a pipe holds before the child's write blocks
PipeCap == 1
\* number of termination signals delivered to the supervisor
MaxSignals == 2

(***************************************************************************)
(* Program constants.                                                      *)
(***************************************************************************)
SUMMARY_TOKEN == "[fedmed-supernode-app] SUMMARY "

\* the status of `raise SystemExit(1)` in the signal handler
HandlerExitStatus == 1

\* Python's None
None == [none |-> TRUE]

(***************************************************************************)
(* The child's output.  A line is a sequence of text fragments; a raw line *)
(* read from the pipe ends with its line terminator.                       *)
(***************************************************************************)
TRAIN1 == "{\"kind\": \"train\", \"partition_id\": 0, \"metrics\": {\"acc\": 1}}"
TRAIN2 == "{\"kind\": \"train\", \"partition_id\": 1, \"metrics\": {\"acc\": 2}}"
EVAL == "{\"kind\": \"eval\", \"partition_id\": 0, \"metrics\": {\"acc\": 1}}"
NOKIND == "{\"partition_id\": 0}"
BADJSON == "{\"kind\": \"train\""
LISTJSON == "[\"train\"]"

StdoutLines ==
    { <<"round 1 finished", "\n">>,
      <<"other text ", SUMMARY_TOKEN, TRAIN1, "\n">>,
      <<SUMMARY_TOKEN, TRAIN2, " ", "\n">>,
      <<SUMMARY_TOKEN, EVAL, "\n">>,
      <<SUMMARY_TOKEN, NOKIND, "\n">>,
      <<SUMMARY_TOKEN, BADJSON, "\n">>,
      <<SUMMARY_TOKEN, LISTJSON, "\n">> }

StderrLines ==
    { <<"warning: insecure channel", "\n">>,
      <<SUMMARY_TOKEN, TRAIN2, "\n">> }

\* exit codes of a child that exits by itself
ExitCodes == {0, 137}

\* returncode of a child ended by SIGTERM / SIGKILL (Popen reports -signum)
SigtermCode == -15
SigkillCode == -9

Whitespace == {" ", "\n"}

RECURSIVE rstrip(_)
\* str.rstrip(): drop the trailing whitespace of a raw line
rstrip(raw) ==
    IF raw # <<>> /\ raw[Len(raw)] \in Whitespace
    THEN rstrip(SubSeq(raw, 1, Len(raw) - 1))
    ELSE raw

\* str.strip() of the payload: leading and trailing whitespace fragments
RECURSIVE lstrip(_)
lstrip(s) ==
    IF s # <<>> /\ s[1] \in Whitespace THEN lstrip(Tail(s)) ELSE s

strip(s) == lstrip(rstrip(s))

\* SUMMARY_TOKEN in line
HasToken(line) == \E i \in 1..Len(line) : line[i] = SUMMARY_TOKEN

\* line.split(SUMMARY_TOKEN, maxsplit=1)[1]: what follows the first token
AfterToken(line) ==
    LET i == CHOOSE k \in 1..Len(line) :
                 /\ line[k] = SUMMARY_TOKEN
                 /\ \A j \in 1..(k - 1) : line[j] # SUMMARY_TOKEN
    IN SubSeq(line, i + 1, Len(line))

\* json.loads(payload): the decoded value, or a JSONDecodeError
json_loads(payload) ==
    IF Len(payload) # 1 THEN [ok |-> FALSE, type |-> "error", val |-> None]
    ELSE CASE payload[1] = TRAIN1 ->
                [ok |-> TRUE, type |-> "dict",
                 val |-> [kind |-> "train", partition_id |-> 0, metrics |-> {<<"acc", 1>>}]]
           [] payload[1] = TRAIN2 ->
                [ok |-> TRUE, type |-> "dict",
                 val |-> [kind |-> "train", partition_id |-> 1, metrics |-> {<<"acc", 2>>}]]
           [] payload[1] = EVAL ->
                [ok |-> TRUE, type |-> "dict",
                 val |-> [kind |-> "eval", partition_id |-> 0, metrics |-> {<<"acc", 1>>}]]
           [] payload[1] = NOKIND ->
                [ok |-> TRUE, type |-> "dict", val |-> [partition_id |-> 0]]
           [] payload[1] = LISTJSON ->
                [ok |-> TRUE, type |-> "list", val |-> None]
           [] OTHER -> [ok |-> FALSE, type |-> "error", val |-> None]

\* dict.get("kind"): the value, or None when the key is absent
GetKind(d) == IF "kind" \in DOMAIN d THEN d.kind ELSE "None"

\* parsed.get("kind") == "train"
IsTrain(d) == GetKind(d) = "train"

\* _capture(line) on the slot `slot`: the new slot, and whether the hook raised
\* (parsed.get on a value that is not a dict raises AttributeError)
_capture(slot, line) ==
    IF ~HasToken(line) THEN [raised |-> FALSE, metrics |-> slot]
    ELSE LET parsed == json_loads(strip(AfterToken(line)))
         IN IF ~parsed.ok THEN [raised |-> FALSE, metrics |-> slot]
            ELSE IF parsed.type # "dict" THEN [raised |-> TRUE, metrics |-> slot]
            ELSE IF IsTrain(parsed.val) THEN [raised |-> FALSE, metrics |-> parsed.val]
            ELSE [raised |-> FALSE, metrics |-> slot]

\* the record _run_supernode makes up when no summary was captured
Fallback(cid) ==
    [kind |-> "train", partition_id |-> cid, metrics |-> {},
     message |-> "No metrics emitted by the ClientApp."]

\* RunResult with the slot tested before the exit code: a captured summary is
\* returned even though the child failed
RunResultSlotFirst(code, slot, cid) ==
    IF slot # None THEN [raised |-> FALSE, code |-> 0, value |-> slot]
    ELSE IF code # 0 THEN [raised |-> TRUE, code |-> code, value |-> None]
    ELSE [raised |-> FALSE, code |-> 0, value |-> Fallback(cid)]

\* RunResult without the fallback: a run that captured nothing fails
RunResultNoFallback(code, slot, cid) ==
    IF code # 0 \/ slot = None THEN [raised |-> TRUE, code |-> code, value |-> None]
    ELSE [raised |-> FALSE, code |-> 0, value |-> slot]

\* the end of _run_supernode: RuntimeError carrying the exit code, or the record
RunResult(code, slot, cid) ==
    IF code # 0 THEN [raised |-> TRUE, code |-> code, value |-> None]
    ELSE IF slot = None THEN [raised |-> FALSE, code |-> 0, value |-> Fallback(cid)]
    ELSE [raised |-> FALSE, code |-> 0, value |-> slot]

\* ValidOptions with the upper check off by one (cid > total_clients)
ValidOptionsOffByOne(cid, total) ==
    /\ ~(total <= 0)
    /\ ~(cid < 0 \/ cid > total)

\* the two checks of _plugin_main on (cid, total_clients)
ValidOptions(cid, total) ==
    /\ ~(total <= 0)
    /\ ~(cid < 0 \/ cid >= total)

(***************************************************************************)
(* The state.                                                              *)
(***************************************************************************)
VARIABLES
    options,        \* the parsed command line: cid, total_clients, json
    pc,             \* where the main thread is
    armed,          \* handle_signals() has installed _handle
    exc,            \* the exception propagating in the main thread
    exitStatus,     \* the status the program exited with (read when pc = "done")
    CHILDREN,       \* the child registry
    proc,           \* the Popen handle of each child: the process and what was asked of it
    stdoutPipe,     \* raw lines written by the child and not yet read
    stderrPipe,
    written,        \* number of lines the child has written to both pipes
    stdoutThread,   \* the relay threads
    stderrThread,
    relayed,        \* history: lines each relay printed, last train summary on stderr
    metrics,        \* the slot _capture writes
    exit_code,      \* the result of proc.wait() in _run_supernode
    summary,        \* the record _run_supernode returned
    sweepIdx,       \* _cleanup_children: index of the handle being terminated
    tpc,            \* _cleanup_children / _terminate_process: the next step
    pendingFinally, \* a handler interrupted the try block: its finally has yet to run
    sigCount,       \* signals delivered so far
    flwrHome,       \* the per-node directory exists
    metricsFile,    \* what was written to the metrics file, in order
    lastTrain,      \* history: payload of the last train summary line the child wrote to stdout
    registered,     \* history: handles ever registered
    polled,         \* history: what proc.poll() found in the running _terminate_process
    sweepCalls,     \* history: terminate()/kill() calls made by the running sweep
    sweepsDone,     \* history: sweeps run to their end since the last spawn
    validated,      \* history: outcome of the checks on (cid, total_clients)
    outcome,        \* history: how _run_supernode ended at line 197-206
    enteredFinally, \* history: the finally block of _plugin_main was entered
    keptState,      \* history: what line 268 found in options.keep_state
    build,          \* the argument list of lines 150-158: its inputs and the list built
    prep,           \* calls of _prepare_environment: inputs, file system, results
    relay,          \* one call of _stream_lines: its stream, sink and hook calls
    script          \* what the child is going to write, when that is fixed in advance

vars == <<options, pc, armed, exc, exitStatus, CHILDREN, proc, stdoutPipe, stderrPipe,
          written, stdoutThread, stderrThread, relayed, metrics, exit_code, summary,
          sweepIdx, tpc, pendingFinally, sigCount, flwrHome, metricsFile, lastTrain,
          registered, polled, sweepCalls, sweepsDone, validated, outcome, enteredFinally,
          keptState, build, prep, relay, script>>

\* the handles the program creates: one Popen per run
Procs == {"flower-supernode"}

\* status of an interpreter that ends with an uncaught exception
UncaughtExitStatus == 1

NotSpawned ==
    [state |-> "none", returncode |-> 0, sigterm |-> FALSE, sigkill |-> FALSE,
     termSent |-> 0, killSent |-> 0]

\* positions of the main thread inside `try: summary = _run_supernode(...)`
TryPcs == {"spawn", "register", "start_threads", "wait", "join_stdout", "join_stderr",
           "check_exit"}

\* the state after construction of everything _plugin_main and its callees touch
MainInit ==
    /\ options \in [cid : -1..MaxClients, total_clients : -1..MaxClients, json : BOOLEAN]
    /\ pc = "start"
    /\ armed = FALSE
    /\ exc = "none"
    /\ exitStatus = 0
    /\ CHILDREN = <<>>
    /\ proc = [h \in Procs |-> NotSpawned]
    /\ stdoutPipe = <<>>
    /\ stderrPipe = <<>>
    /\ written = 0
    /\ stdoutThread = "unstarted"
    /\ stderrThread = "unstarted"
    /\ relayed = [stdout |-> 0, stderr |-> 0, errTrain |-> None]
    /\ metrics = None
    /\ exit_code = 0
    /\ summary = None
    /\ sweepIdx = 0
    /\ tpc = "idle"
    /\ pendingFinally = FALSE
    /\ sigCount = 0
    /\ flwrHome = FALSE
    /\ metricsFile = <<>>
    /\ lastTrain = None
    /\ registered = {}
    /\ polled = "none"
    /\ sweepCalls = 0
    /\ sweepsDone = 0
    /\ validated = "pending"
    /\ outcome = [kind |-> "pending", code |-> 0, value |-> None]
    /\ enteredFinally = FALSE
    /\ keptState = "unread"

\* no argument list is being built
NotBuilding == [stage |-> "idle"]

\* _prepare_environment is not being called on its own
NotPreparing == [stage |-> "idle"]

\* the child decides what to write, and when to exit, as it goes
Unscripted == [scripted |-> FALSE, streams |-> <<>>]

\* _stream_lines is not being called on its own
NotRelaying == [stage |-> "idle"]

Init ==
    /\ MainInit
    /\ build = NotBuilding
    /\ prep = NotPreparing
    /\ relay = NotRelaying
    /\ script = Unscripted

unitVars == <<build, prep, relay>>
childVars == <<proc, stdoutPipe, stderrPipe, written, lastTrain>>
threadVars == <<stdoutThread, stderrThread, relayed, metrics>>
sweepVars == <<sweepIdx, tpc, polled, sweepCalls, sweepsDone>>
fsVars == <<flwrHome, metricsFile>>
runVars == <<exit_code, summary, outcome>>

(***************************************************************************)
(* _cleanup_children and _terminate_process.  The sweep is run by the      *)
(* signal handler (pc = "handler") and by the finally block of             *)
(* _plugin_main (pc = "finally").                                          *)
(***************************************************************************)
InSweep == pc \in {"handler", "finally"}

\* the first step of a sweep over `children`: reversed() starts at the last entry
FirstStep(children) == IF Len(children) > 0 THEN "poll" ELSE "clear"

\* the handle _terminate_process is working on
Cur == CHILDREN[sweepIdx]

\* _terminate_process returned: the loop moves to the entry registered before
NextHandle ==
    /\ sweepIdx' = sweepIdx - 1
    /\ tpc' = IF sweepIdx - 1 > 0 THEN "poll" ELSE "clear"
    /\ polled' = "none"

\* PollSaysExited with the test inverted (`is None`)
PollInverted(p) == p.state # "exited"

\* PollSaysExited without the early return of line 94-95
PollNever(p) == FALSE

\* `proc.poll() is not None`
PollSaysExited(p) == p.state = "exited"

\* CHILDREN.clear()
Cleared(children) == <<>>

\* line 94-95: return at once when the child has exited
Poll ==
    /\ InSweep /\ tpc = "poll"
    /\ IF PollSaysExited(proc[Cur])
       THEN NextHandle
       ELSE /\ tpc' = "terminate"
            /\ polled' = proc[Cur].state
            /\ UNCHANGED sweepIdx
    /\ UNCHANGED <<keptState, script, unitVars, enteredFinally, options, pc, armed, exc,
                   exitStatus, CHILDREN, childVars, threadVars, runVars, pendingFinally,
                   sigCount, fsVars, registered, sweepCalls, sweepsDone, validated>>

\* Terminate with proc.kill() in the place of proc.terminate()
TerminateKills ==
    /\ InSweep /\ tpc = "terminate"
    /\ proc' = IF proc[Cur].state = "running"
                THEN [proc EXCEPT ![Cur].killSent = @ + 1, ![Cur].sigkill = TRUE]
                ELSE proc
    /\ sweepCalls' = sweepCalls + 1
    /\ tpc' = "wait"
    /\ UNCHANGED <<keptState, script, unitVars, enteredFinally, options, pc, armed, exc,
                   exitStatus, CHILDREN, stdoutPipe, stderrPipe, written, lastTrain,
                   threadVars, runVars, sweepIdx, polled, sweepsDone, pendingFinally,
                   sigCount, fsVars, registered, validated>>

\* line 96: proc.terminate(); Popen sends SIGTERM unless the child has exited
Terminate ==
    /\ InSweep /\ tpc = "terminate"
    /\ proc' = IF proc[Cur].state = "running"
                THEN [proc EXCEPT ![Cur].termSent = @ + 1, ![Cur].sigterm = TRUE]
                ELSE proc
    /\ sweepCalls' = sweepCalls + 1
    /\ tpc' = "wait"
    /\ UNCHANGED <<keptState, script, unitVars, enteredFinally, options, pc, armed, exc,
                   exitStatus, CHILDREN, stdoutPipe, stderrPipe, written, lastTrain,
                   threadVars, runVars, sweepIdx, polled, sweepsDone, pendingFinally,
                   sigCount, fsVars, registered, validated>>

\* line 98: proc.wait(timeout) returns because the child exited in time
WaitReturns ==
    /\ InSweep /\ tpc = "wait"
    /\ proc[Cur].state = "exited"
    /\ NextHandle
    /\ UNCHANGED <<keptState, script, unitVars, enteredFinally, options, pc, armed, exc,
                   exitStatus, CHILDREN, childVars, threadVars, runVars, pendingFinally,
                   sigCount, fsVars, registered, sweepCalls, sweepsDone, validated>>

\* line 98-99: the bounded wait expires with the child still running
WaitTimesOut ==
    /\ InSweep /\ tpc = "wait"
    /\ proc[Cur].state = "running"
    /\ tpc' = "kill"
    /\ UNCHANGED <<keptState, script, unitVars, enteredFinally, options, pc, armed, exc,
                   exitStatus, CHILDREN, childVars, threadVars, runVars, sweepIdx,
                   polled, sweepCalls, sweepsDone, pendingFinally, sigCount, fsVars,
                   registered, validated>>

\* Kill with a second proc.terminate() in the place of proc.kill()
KillSendsTerm ==
    /\ InSweep /\ tpc = "kill"
    /\ proc' = IF proc[Cur].state = "running"
                THEN [proc EXCEPT ![Cur].termSent = @ + 1, ![Cur].sigterm = TRUE]
                ELSE proc
    /\ sweepCalls' = sweepCalls + 1
    /\ tpc' = "reap"
    /\ UNCHANGED <<keptState, script, unitVars, enteredFinally, options, pc, armed, exc,
                   exitStatus, CHILDREN, stdoutPipe, stderrPipe, written, lastTrain,
                   threadVars, runVars, sweepIdx, polled, sweepsDone, pendingFinally,
                   sigCount, fsVars, registered, validated>>

\* line 100: proc.kill(); Popen sends SIGKILL unless the child has exited
Kill ==
    /\ InSweep /\ tpc = "kill"
    /\ proc' = IF proc[Cur].state = "running"
                THEN [proc EXCEPT ![Cur].killSent = @ + 1, ![Cur].sigkill = TRUE]
                ELSE proc
    /\ sweepCalls' = sweepCalls + 1
    /\ tpc' = "reap"
    /\ UNCHANGED <<keptState, script, unitVars, enteredFinally, options, pc, armed, exc,
                   exitStatus, CHILDREN, stdoutPipe, stderrPipe, written, lastTrain,
                   threadVars, runVars, sweepIdx, polled, sweepsDone, pendingFinally,
                   sigCount, fsVars, registered, validated>>

\* line 101: proc.wait() without a timeout
Reap ==
    /\ InSweep /\ tpc = "reap"
    /\ proc[Cur].state = "exited"
    /\ NextHandle
    /\ UNCHANGED <<keptState, script, unitVars, enteredFinally, options, pc, armed, exc,
                   exitStatus, CHILDREN, childVars, threadVars, runVars, pendingFinally,
                   sigCount, fsVars, registered, sweepCalls, sweepsDone, validated>>

\* ExitWith when SystemExit is taken for a clean exit
ExitWithSwallowed(e) == IF e \in {"none", "SystemExit"} THEN 0 ELSE UncaughtExitStatus

\* the main thread leaves the program: an uncaught exception, or the end of main()
ExitWith(e) == IF e = "none" THEN 0
               ELSE IF e = "SystemExit" THEN HandlerExitStatus
               ELSE UncaughtExitStatus

\* FinallyClear as if the finally block swallowed a propagating exception
FinallyClearSwallows ==
    /\ pc = "finally" /\ tpc = "clear"
    /\ CHILDREN' = Cleared(CHILDREN)
    /\ sweepsDone' = sweepsDone + 1
    /\ tpc' = "idle"
    /\ pc' = "write_metrics" /\ UNCHANGED exitStatus
    /\ UNCHANGED <<keptState, script, unitVars, enteredFinally, options, armed, exc,
                   childVars, threadVars, runVars, sweepIdx, polled, sweepCalls,
                   pendingFinally, sigCount, fsVars, registered, validated>>

\* line 110 at the end of the finally block's sweep (line 262): the registry is
\* cleared, then a propagating exception leaves _plugin_main, or line 264 is next
FinallyClear ==
    /\ pc = "finally" /\ tpc = "clear"
    /\ CHILDREN' = Cleared(CHILDREN)
    /\ sweepsDone' = sweepsDone + 1
    /\ tpc' = "idle"
    /\ IF exc = "none"
       THEN pc' = "write_metrics" /\ UNCHANGED exitStatus
       ELSE pc' = "done" /\ exitStatus' = ExitWith(exc)
    /\ UNCHANGED <<keptState, script, unitVars, enteredFinally, options, armed, exc,
                   childVars, threadVars, runVars, sweepIdx, polled, sweepCalls,
                   pendingFinally, sigCount, fsVars, registered, validated>>

\* line 110 and 117 in the signal handler: the registry is cleared and
\* SystemExit(1) unwinds the main thread, through the finally block when the
\* handler interrupted the try block
HandlerClearAndExit ==
    /\ pc = "handler" /\ tpc = "clear"
    /\ CHILDREN' = Cleared(CHILDREN)
    /\ sweepsDone' = sweepsDone + 1
    /\ exc' = "SystemExit"
    /\ IF pendingFinally
       THEN /\ pc' = "finally"
            /\ enteredFinally' = TRUE
            /\ sweepIdx' = Len(CHILDREN')
            /\ tpc' = FirstStep(CHILDREN')
            /\ sweepCalls' = 0
            /\ UNCHANGED exitStatus
       ELSE /\ pc' = "done"
            /\ exitStatus' = ExitWith("SystemExit")
            /\ tpc' = "idle"
            /\ UNCHANGED <<keptState, script, unitVars, sweepIdx, sweepCalls,
                           enteredFinally>>
    /\ pendingFinally' = FALSE
    /\ UNCHANGED <<keptState, script, unitVars, options, armed, childVars, threadVars,
                   runVars, polled, sigCount, fsVars, registered, validated>>

\* SIGTERM or SIGINT is delivered: _handle runs in the main thread, on top of
\* whatever the main thread was doing (line 114-116)
Signal ==
    /\ armed /\ pc # "done"
    /\ sigCount < MaxSignals
    /\ sigCount' = sigCount + 1
    /\ pendingFinally' = (pendingFinally \/ pc \in TryPcs)
    /\ pc' = "handler"
    /\ sweepIdx' = Len(CHILDREN)
    /\ tpc' = FirstStep(CHILDREN)
    /\ polled' = "none"
    /\ sweepCalls' = 0
    /\ UNCHANGED <<keptState, script, unitVars, enteredFinally, options, armed, exc,
                   exitStatus, CHILDREN, childVars, threadVars, runVars, sweepsDone,
                   fsVars, registered, validated>>

(***************************************************************************)
(* The main thread: _plugin_main and _run_supernode.                       *)
(***************************************************************************)
\* line 245: handle_signals()
ArmSignals ==
    /\ pc = "start"
    /\ armed' = TRUE
    /\ pc' = "json_check"
    /\ UNCHANGED <<keptState, script, unitVars, enteredFinally, options, exc,
                   exitStatus, CHILDREN, childVars, threadVars, runVars, sweepVars,
                   pendingFinally, sigCount, fsVars, registered, validated>>

\* line 247-249: --json prints the plugin description and returns
JsonCheck ==
    /\ pc = "json_check"
    /\ IF options.json
       THEN pc' = "done" /\ exitStatus' = ExitWith("none")
       ELSE pc' = "validate" /\ UNCHANGED exitStatus
    /\ UNCHANGED <<keptState, script, unitVars, enteredFinally, options, armed, exc,
                   CHILDREN, childVars, threadVars, runVars, sweepVars, pendingFinally,
                   sigCount, fsVars, registered, validated>>

\* line 251-254: ValueError leaves _plugin_main at once (the try block is not entered)
Validate ==
    /\ pc = "validate"
    /\ IF ValidOptions(options.cid, options.total_clients)
       THEN /\ validated' = "ok"
            /\ pc' = "prepare_env"
            /\ UNCHANGED <<exc, exitStatus>>
       ELSE /\ validated' = "failed"
            /\ exc' = "ValueError"
            /\ pc' = "done"
            /\ exitStatus' = ExitWith("ValueError")
    /\ UNCHANGED <<keptState, script, unitVars, enteredFinally, options, armed,
                   CHILDREN, childVars, threadVars, runVars, sweepVars, pendingFinally,
                   sigCount, fsVars, registered>>

\* line 256: _prepare_environment makes the per-node directory
PrepareEnvironment ==
    /\ pc = "prepare_env"
    /\ flwrHome' = TRUE
    /\ pc' = "spawn"
    /\ UNCHANGED <<keptState, script, unitVars, enteredFinally, options, armed, exc,
                   exitStatus, CHILDREN, childVars, threadVars, runVars, sweepVars,
                   pendingFinally, sigCount, metricsFile, registered, validated>>

\* line 175-181: subprocess.Popen starts the child
Spawn ==
    /\ pc = "spawn"
    /\ \E h \in Procs :
         /\ proc[h].state = "none"
         /\ proc' = [proc EXCEPT ![h].state = "running"]
    /\ pc' = "register"
    /\ UNCHANGED <<keptState, script, unitVars, enteredFinally, options, armed, exc,
                   exitStatus, CHILDREN, stdoutPipe, stderrPipe, written, lastTrain,
                   threadVars, runVars, sweepVars, pendingFinally, sigCount, fsVars,
                   registered, validated>>

\* _register_child (line 89-90)
Registered(children, h) == Append(children, h)

\* line 182: _register_child(proc)
RegisterChild ==
    /\ pc = "register"
    /\ \E h \in Procs :
         /\ proc[h].state # "none"
         /\ CHILDREN' = Registered(CHILDREN, h)
         /\ registered' = registered \cup {h}
    /\ pc' = "start_threads"
    /\ UNCHANGED <<keptState, script, unitVars, enteredFinally, options, armed, exc,
                   exitStatus, childVars, threadVars, runVars, sweepVars,
                   pendingFinally, sigCount, fsVars, validated>>

\* the main thread enters the finally block of _plugin_main (line 262)
EnterFinally ==
    /\ pc' = "finally"
    /\ sweepIdx' = Len(CHILDREN)
    /\ tpc' = FirstStep(CHILDREN)
    /\ polled' = "none"
    /\ sweepCalls' = 0
    /\ enteredFinally' = TRUE

\* line 183-191: both relay threads are started
StartThreads ==
    /\ pc = "start_threads"
    /\ stdoutThread' = "running"
    /\ stderrThread' = "running"
    /\ pc' = "wait"
    /\ UNCHANGED <<keptState, script, unitVars, enteredFinally, options, armed, exc,
                   exitStatus, CHILDREN, childVars, relayed, metrics, runVars,
                   sweepVars, pendingFinally, sigCount, fsVars, registered, validated>>

\* line 189: Thread.start() raises RuntimeError (no thread can be started); the
\* exception leaves _run_supernode with the child running
StartThreadsFails ==
    /\ pc = "start_threads"
    /\ exc' = "ThreadError"
    /\ EnterFinally
    /\ UNCHANGED <<keptState, script, unitVars, options, armed, exitStatus, CHILDREN,
                   childVars, threadVars, runVars, sweepsDone, pendingFinally, sigCount,
                   fsVars, registered, validated>>

\* line 192: exit_code = proc.wait()
WaitChild ==
    /\ pc = "wait"
    /\ \E h \in Procs :
         /\ proc[h].state = "exited"
         /\ exit_code' = proc[h].returncode
    /\ pc' = "join_stdout"
    /\ UNCHANGED <<keptState, script, unitVars, enteredFinally, options, armed, exc,
                   exitStatus, CHILDREN, childVars, threadVars, summary, outcome,
                   sweepVars, pendingFinally, sigCount, fsVars, registered, validated>>

\* line 193: stdout_thread.join()
JoinStdout ==
    /\ pc = "join_stdout"
    /\ stdoutThread \in {"finished", "died"}
    /\ pc' = "join_stderr"
    /\ UNCHANGED <<keptState, script, unitVars, enteredFinally, options, armed, exc,
                   exitStatus, CHILDREN, childVars, threadVars, runVars, sweepVars,
                   pendingFinally, sigCount, fsVars, registered, validated>>

\* line 194: stderr_thread.join()
JoinStderr ==
    /\ pc = "join_stderr"
    /\ stderrThread \in {"finished", "died"}
    /\ pc' = "check_exit"
    /\ UNCHANGED <<keptState, script, unitVars, enteredFinally, options, armed, exc,
                   exitStatus, CHILDREN, childVars, threadVars, runVars, sweepVars,
                   pendingFinally, sigCount, fsVars, registered, validated>>

\* line 197-206 and 260: _run_supernode raises RuntimeError or returns the record
CheckExit ==
    /\ pc = "check_exit"
    /\ LET r == RunResult(exit_code, metrics, options.cid)
       IN /\ exc' = IF r.raised THEN "WorkerFailed" ELSE "none"
          /\ summary' = r.value
          /\ outcome' = [kind |-> IF r.raised THEN "raised" ELSE "returned",
                         code |-> r.code, value |-> r.value]
    /\ EnterFinally
    /\ UNCHANGED <<keptState, script, unitVars, options, armed, exitStatus, CHILDREN,
                   childVars, threadVars, exit_code, sweepsDone, pendingFinally,
                   sigCount, fsVars, registered, validated>>

\* line 264-266: the record is written to the metrics file
WriteMetrics ==
    /\ pc = "write_metrics"
    /\ metricsFile' = Append(metricsFile, summary)
    /\ pc' = "remove_state"
    /\ UNCHANGED <<keptState, script, unitVars, enteredFinally, options, armed, exc,
                   exitStatus, CHILDREN, childVars, threadVars, runVars, sweepVars,
                   pendingFinally, sigCount, flwrHome, registered, validated>>

\* line 268-270: the per-node directory is removed unless options.keep_state (read
\* here for the first time); main() returns
RemoveState ==
    /\ pc = "remove_state"
    /\ \E keep_state \in BOOLEAN :
         /\ flwrHome' = IF keep_state THEN flwrHome ELSE FALSE
         /\ keptState' = IF keep_state THEN "keep" ELSE "remove"
    /\ pc' = "done"
    /\ exitStatus' = ExitWith("none")
    /\ UNCHANGED <<script, unitVars, enteredFinally, options, armed, exc, CHILDREN,
                   childVars, threadVars, runVars, sweepVars, pendingFinally, sigCount,
                   metricsFile, registered, validated>>

(***************************************************************************)
(* The child process.                                                      *)
(***************************************************************************)
\* the payload carried by a well-formed train summary line, None for any other line
TrainPayload(raw) ==
    IF ~HasToken(rstrip(raw)) THEN None
    ELSE LET parsed == json_loads(strip(AfterToken(rstrip(raw))))
         IN IF parsed.ok /\ parsed.type = "dict" /\ IsTrain(parsed.val)
            THEN parsed.val ELSE None

\* the child's next write goes to `stream`
NextWrite(stream) ==
    IF script.scripted
    THEN written < Len(script.streams) /\ script.streams[written + 1] = stream
    ELSE written < MaxLines

\* the child writes a line to stdout; the write blocks while the pipe is full
ChildWritesStdout ==
    /\ pc # "done"
    /\ NextWrite("stdout")
    /\ Len(stdoutPipe) < PipeCap
    /\ \E h \in Procs : proc[h].state = "running"
    /\ \E raw \in StdoutLines :
         /\ stdoutPipe' = Append(stdoutPipe, raw)
         /\ lastTrain' = IF TrainPayload(raw) # None THEN TrainPayload(raw) ELSE lastTrain
    /\ written' = written + 1
    /\ UNCHANGED <<keptState, script, unitVars, enteredFinally, options, pc, armed, exc,
                   exitStatus, CHILDREN, proc, stderrPipe, threadVars, runVars,
                   sweepVars, pendingFinally, sigCount, fsVars, registered, validated>>

\* the child writes a line to stderr
ChildWritesStderr ==
    /\ pc # "done"
    /\ NextWrite("stderr")
    /\ Len(stderrPipe) < PipeCap
    /\ \E h \in Procs : proc[h].state = "running"
    /\ \E raw \in StderrLines : stderrPipe' = Append(stderrPipe, raw)
    /\ written' = written + 1
    /\ UNCHANGED <<keptState, script, unitVars, enteredFinally, options, pc, armed, exc,
                   exitStatus, CHILDREN, proc, stdoutPipe, lastTrain, threadVars,
                   runVars, sweepVars, pendingFinally, sigCount, fsVars, registered,
                   validated>>

\* the child exits by itself
ChildExits ==
    /\ ~script.scripted
    /\ \E h \in Procs, code \in ExitCodes :
         /\ proc[h].state = "running"
         /\ proc' = [proc EXCEPT ![h].state = "exited", ![h].returncode = code]
    /\ UNCHANGED <<keptState, script, unitVars, enteredFinally, options, pc, armed, exc,
                   exitStatus, CHILDREN, stdoutPipe, stderrPipe, written, lastTrain,
                   threadVars, runVars, sweepVars, pendingFinally, sigCount, fsVars,
                   registered, validated>>

\* a child that follows a script exits when it has written all of it
ChildFinishes ==
    /\ script.scripted
    /\ written = Len(script.streams)
    /\ \E h \in Procs, code \in ExitCodes :
         /\ proc[h].state = "running"
         /\ proc' = [proc EXCEPT ![h].state = "exited", ![h].returncode = code]
    /\ UNCHANGED <<keptState, unitVars, script, enteredFinally, options, pc, armed, exc,
                   exitStatus, CHILDREN, stdoutPipe, stderrPipe, written, lastTrain,
                   threadVars, runVars, sweepVars, pendingFinally, sigCount, fsVars,
                   registered, validated>>

\* SIGTERM ends the child (a child may also ignore it)
ChildTerminated ==
    /\ \E h \in Procs :
         /\ proc[h].state = "running" /\ proc[h].sigterm
         /\ proc' = [proc EXCEPT ![h].state = "exited", ![h].returncode = SigtermCode]
    /\ UNCHANGED <<keptState, script, unitVars, enteredFinally, options, pc, armed, exc,
                   exitStatus, CHILDREN, stdoutPipe, stderrPipe, written, lastTrain,
                   threadVars, runVars, sweepVars, pendingFinally, sigCount, fsVars,
                   registered, validated>>

\* SIGKILL ends the child
ChildKilled ==
    /\ \E h \in Procs :
         /\ proc[h].state = "running" /\ proc[h].sigkill
         /\ proc' = [proc EXCEPT ![h].state = "exited", ![h].returncode = SigkillCode]
    /\ UNCHANGED <<keptState, script, unitVars, enteredFinally, options, pc, armed, exc,
                   exitStatus, CHILDREN, stdoutPipe, stderrPipe, written, lastTrain,
                   threadVars, runVars, sweepVars, pendingFinally, sigCount, fsVars,
                   registered, validated>>

(***************************************************************************)
(* The relay threads: _stream_lines on proc.stdout (with _capture) and on   *)
(* proc.stderr (no hook).  They are daemon threads: they stop when the      *)
(* program exits.                                                           *)
(***************************************************************************)
\* readline() returns "" when the pipe is empty and its writer has exited
AtEOF(pipe) == pipe = <<>> /\ \A h \in Procs : proc[h].state = "exited"

\* line 134-138 on stdout: one line is read, printed and passed to _capture
StdoutRelay ==
    /\ pc # "done"
    /\ stdoutThread = "running"
    /\ stdoutPipe # <<>>
    /\ LET line == rstrip(Head(stdoutPipe))
           r == _capture(metrics, line)
       IN /\ metrics' = r.metrics
          /\ stdoutThread' = IF r.raised THEN "died" ELSE "running"
    /\ stdoutPipe' = Tail(stdoutPipe)
    /\ relayed' = [relayed EXCEPT !.stdout = @ + 1]
    /\ UNCHANGED <<keptState, script, unitVars, enteredFinally, options, pc, armed, exc,
                   exitStatus, CHILDREN, proc, stderrPipe, written, lastTrain,
                   stderrThread, runVars, sweepVars, pendingFinally, sigCount, fsVars,
                   registered, validated>>

\* line 134 and 139 on stdout: end of stream, the relay returns
StdoutEOF ==
    /\ pc # "done"
    /\ stdoutThread = "running"
    /\ AtEOF(stdoutPipe)
    /\ stdoutThread' = "finished"
    /\ UNCHANGED <<keptState, script, unitVars, enteredFinally, options, pc, armed, exc,
                   exitStatus, CHILDREN, childVars, stderrThread, relayed, metrics,
                   runVars, sweepVars, pendingFinally, sigCount, fsVars, registered,
                   validated>>

\* StderrRelay with _capture passed as the hook of the stderr thread
StderrRelayHooked ==
    /\ pc # "done"
    /\ stderrThread = "running"
    /\ stderrPipe # <<>>
    /\ LET r == _capture(metrics, rstrip(Head(stderrPipe)))
       IN /\ metrics' = r.metrics
          /\ stderrThread' = IF r.raised THEN "died" ELSE "running"
    /\ stderrPipe' = Tail(stderrPipe)
    /\ relayed' = [relayed EXCEPT !.stderr = @ + 1,
                                  !.errTrain = IF TrainPayload(Head(stderrPipe)) # None
                                               THEN TrainPayload(Head(stderrPipe)) ELSE @]
    /\ UNCHANGED <<keptState, script, unitVars, enteredFinally, options, pc, armed, exc,
                   exitStatus, CHILDREN, proc, stdoutPipe, written, lastTrain,
                   stdoutThread, runVars, sweepVars, pendingFinally, sigCount, fsVars,
                   registered, validated>>

\* line 134-138 on stderr: one line is read and printed; there is no hook
StderrRelay ==
    /\ pc # "done"
    /\ stderrThread = "running"
    /\ stderrPipe # <<>>
    /\ stderrPipe' = Tail(stderrPipe)
    /\ relayed' = [relayed EXCEPT !.stderr = @ + 1,
                                  !.errTrain = IF TrainPayload(Head(stderrPipe)) # None
                                               THEN TrainPayload(Head(stderrPipe)) ELSE @]
    /\ UNCHANGED <<keptState, script, unitVars, enteredFinally, options, pc, armed, exc,
                   exitStatus, CHILDREN, proc, stdoutPipe, written, lastTrain,
                   stdoutThread, stderrThread, metrics, runVars, sweepVars,
                   pendingFinally, sigCount, fsVars, registered, validated>>

\* line 134 and 139 on stderr
StderrEOF ==
    /\ pc # "done"
    /\ stderrThread = "running"
    /\ AtEOF(stderrPipe)
    /\ stderrThread' = "finished"
    /\ UNCHANGED <<keptState, script, unitVars, enteredFinally, options, pc, armed, exc,
                   exitStatus, CHILDREN, childVars, stdoutThread, relayed, metrics,
                   runVars, sweepVars, pendingFinally, sigCount, fsVars, registered,
                   validated>>

Next ==
    \/ ArmSignals \/ JsonCheck \/ Validate \/ PrepareEnvironment
    \/ Spawn \/ RegisterChild \/ StartThreads \/ StartThreadsFails
    \/ WaitChild \/ JoinStdout \/ JoinStderr \/ CheckExit
    \/ WriteMetrics \/ RemoveState
    \/ Poll \/ Terminate \/ WaitReturns \/ WaitTimesOut \/ Kill \/ Reap
    \/ FinallyClear \/ HandlerClearAndExit \/ Signal
    \/ ChildWritesStdout \/ ChildWritesStderr
    \/ ChildExits \/ ChildTerminated \/ ChildKilled
    \/ StdoutRelay \/ StdoutEOF \/ StderrRelay \/ StderrEOF

Spec == Init /\ [][Next]_vars

(***************************************************************************)
(* Properties.                                                             *)
(***************************************************************************)
\* the main thread has left the finally block of _plugin_main
LeftFinally == enteredFinally /\ pc \in {"write_metrics", "remove_state", "done"}

\* a raw line that carries the marker token and is not a well-formed train summary
NotTrainMarker(raw) == HasToken(rstrip(raw)) /\ TrainPayload(raw) = None

\* C1: whenever the child exits with a non-zero exit code, _run_supernode ends by
\* raising an error that carries that exit code and returns no record, whatever
\* the child wrote to stdout before (train summary lines included).
C1_NonZeroExitRaises ==
    \A h \in Procs :
        (outcome.kind # "pending" /\ proc[h].returncode # 0)
            => /\ outcome.kind = "raised"
               /\ outcome.code = proc[h].returncode
               /\ outcome.value = None
               /\ summary = None

\* a child that wrote a train summary, had it captured, and then exited non-zero
C1_Witness ==
    /\ outcome.kind = "raised"
    /\ lastTrain # None
    /\ metrics = lastTrain
    /\ \E h \in Procs : proc[h].returncode \in ExitCodes \ {0}

\* C2: when the child exits with code 0 and wrote at least one well-formed train
\* summary line to stdout, the record _run_supernode returns is the payload of
\* the last such line, whatever other lines were interleaved with them.
C2_LastTrainReturned ==
    (outcome.kind = "returned" /\ lastTrain # None) => outcome.value = lastTrain

\* C3: when the child exits with code 0 and no train summary was captured,
\* _run_supernode does not fail and returns a fallback record: kind "train",
\* the configured node id, empty metrics, a non-empty message.
C3_FallbackWhenNothingCaptured ==
    (/\ outcome.kind # "pending"
     /\ \A h \in Procs : proc[h].returncode = 0
     /\ metrics = None)
        => /\ outcome.kind = "returned"
           /\ DOMAIN outcome.value = {"kind", "partition_id", "metrics", "message"}
           /\ outcome.value.kind = "train"
           /\ outcome.value.partition_id = options.cid
           /\ outcome.value.metrics = {}
           /\ outcome.value.message # ""
           /\ summary = outcome.value

\* a run that relayed stdout lines, captured none of them, and returned
C3_Witness ==
    /\ outcome.kind = "returned"
    /\ metrics = None
    /\ relayed.stdout > 0

\* C4: a stdout line that carries the marker token and is not a well-formed
\* train summary leaves the slot unchanged and does not raise in the hook: the
\* stdout relay is still running after it.
C4_BadMarkerLineIsSkipped ==
    [][(/\ stdoutThread = "running"
        /\ stdoutPipe # <<>>
        /\ stdoutPipe' = Tail(stdoutPipe)
        /\ NotTrainMarker(Head(stdoutPipe)))
           => (metrics' = metrics /\ stdoutThread' = "running")]_vars

\* C5: once control has left the finally block of _plugin_main, whether
\* _run_supernode returned or raised, the registry is empty and every child
\* that was registered has exited.
C5_CleanupBeforeLeavingFinally ==
    LeftFinally => /\ CHILDREN = <<>>
                   /\ \A h \in registered : proc[h].state = "exited"

\* the run raised with the child still running, and the finally sweep ended it
C5_Witness ==
    /\ LeftFinally
    /\ exc = "ThreadError"
    /\ sigCount = 0
    /\ \E h \in registered : proc[h].termSent = 1 /\ proc[h].state = "exited"

\* C6: whenever the program has exited, every child that was spawned has
\* exited, also when a termination request arrived between the spawn and the
\* registration.
C6_NoOrphan ==
    pc = "done" => \A h \in Procs : proc[h].state \in {"none", "exited"}

C8_CleanupIdempotent ==
    /\ sweepsDone >= 1 => CHILDREN = <<>>
    /\ (sweepsDone >= 1 /\ InSweep) => sweepCalls = 0
    /\ (InSweep /\ tpc \in {"terminate", "wait", "kill", "reap"}) => polled = "running"

\* the finally block's sweep runs right after the handler's sweep of a child
C8_Witness ==
    /\ pc = "finally"
    /\ sweepsDone >= 1
    /\ registered # {}

\* C9: no handle is sent more than one graceful termination request, however
\* the handler's sweep interleaves with the finally block's sweep, and none is
\* sent to a handle that has exited.
C9_NoDoubleTerminate ==
    /\ \A h \in Procs : proc[h].termSent <= 1
    /\ (InSweep /\ tpc = "terminate") => polled = "running"

\* C10: the checks on (cid, total_clients) pass exactly when
\* 0 <= cid < total_clients; when they fail, no child has been spawned or
\* registered and the per-node directory has not been made.
C10_ValidationExactAndEarly ==
    /\ validated = "ok"
           => (0 <= options.cid /\ options.cid < options.total_clients)
    /\ validated = "failed"
           => /\ ~(0 <= options.cid /\ options.cid < options.total_clients)
              /\ exc = "ValueError"
              /\ \A h \in Procs : proc[h].state = "none"
              /\ registered = {}
              /\ CHILDREN = <<>>
              /\ ~flwrHome

\* cid = total_clients: the first value above the range is refused
C10_Witness ==
    /\ validated = "failed"
    /\ options.cid = options.total_clients
    /\ options.total_clients > 0
    /\ pc = "done"


(***************************************************************************)
(* The argument list of flower-supernode (lines 150-158), as a function of *)
(* the options.  An argument is a sequence of string fragments; numbers    *)
(* are formatted in decimal as an f-string formats an int.                 *)
(***************************************************************************)
DEFAULT_SUPERLINK_PORT == 9092
DEFAULT_CLIENTAPP_PORT == 9094
DefaultDataSeed == 13

Digits == <<"0", "1", "2", "3", "4", "5", "6", "7", "8", "9">>

RECURSIVE IntStr(_)
IntStr(n) ==
    IF n < 0 THEN <<"-">> \o IntStr(-n)
    ELSE IF n < 10 THEN <<Digits[n + 1]>>
    ELSE IntStr(n \div 10) \o <<Digits[(n % 10) + 1]>>

as_flag(node_config) ==
    <<"partition-id=">> \o IntStr(node_config.cid) \o
    <<" ", "num-partitions=">> \o IntStr(node_config.total_clients) \o
    <<" ", "data-seed=">> \o IntStr(node_config.data_seed)

_build_node_config(opts) ==
    [cid |-> opts.cid, total_clients |-> opts.total_clients, data_seed |-> opts.data_seed]

_build_targets(opts) ==
    [superlink |-> <<opts.superlink_host, ":">> \o IntStr(opts.superlink_port),
     clientapp |-> <<opts.clientapp_host, ":">> \o IntStr(opts.clientapp_port)]

TransportFlagRereOnly(transport) ==
    IF transport = "grpc-rere" THEN << <<"--grpc-rere">> >>
    ELSE << <<"--grpc-adapter">> >>

_transport_flag(transport) ==
    IF transport = "grpc-rere" THEN << <<"--grpc-rere">> >>
    ELSE IF transport = "grpc-adapter" THEN << <<"--grpc-adapter">> >>
    ELSE << <<"--rest">> >>

cmd(opts) ==
    << <<"flower-supernode">>, <<"--insecure">> >>
    \o _transport_flag(opts.transport)
    \o << <<"--superlink=">> \o _build_targets(opts).superlink,
          <<"--clientappio-api-address=">> \o _build_targets(opts).clientapp,
          <<"--node-config">>,
          as_flag(_build_node_config(opts)) >>

\* the transport strings tried: the two recognised ones, "rest", and values
\* outside the documented choices
Transports == {"grpc-rere", "grpc-adapter", "rest", "grpc", "GRPC-RERE", ""}

CmdOptions ==
    [transport : Transports,
     cid : 0..MaxClients,
     total_clients : 1..(MaxClients + 1),
     data_seed : {0, DefaultDataSeed},
     superlink_host : {"fedmed-pl-superlink", "10.0.0.7"},
     superlink_port : {DEFAULT_SUPERLINK_PORT},
     clientapp_host : {"0.0.0.0"},
     clientapp_port : {DEFAULT_CLIENTAPP_PORT}]

mainVars == <<options, pc, armed, exc, exitStatus, CHILDREN, pendingFinally, sigCount,
              registered, validated, enteredFinally, childVars, threadVars,
              sweepVars, fsVars, runVars, script, keptState>>

\* the main thread is parked before _plugin_main: only the function under
\* study runs
Parked ==
    /\ MainInit
    /\ options = [cid |-> 0, total_clients |-> 1, json |-> FALSE]
    /\ script = Unscripted

CmdInit ==
    /\ Parked
    /\ prep = NotPreparing
    /\ relay = NotRelaying
    /\ build \in [stage : {"args"}, options : CmdOptions, cmd : {<<>>}]

BuildCmd ==
    /\ build.stage = "args"
    /\ build' = [build EXCEPT !.stage = "built", !.cmd = cmd(build.options)]
    /\ UNCHANGED <<prep, relay, mainVars>>

CmdNext == BuildCmd

SpecCmd == CmdInit /\ [][CmdNext]_vars

TransportFlags == {<<"--grpc-rere">>, <<"--grpc-adapter">>, <<"--rest">>}

ExpectedFlag(transport) ==
    CASE transport = "grpc-rere" -> <<"--grpc-rere">>
      [] transport = "grpc-adapter" -> <<"--grpc-adapter">>
      [] OTHER -> <<"--rest">>

StartsWith(arg, fragment) == Len(arg) >= 1 /\ arg[1] = fragment

\* C11: for every transport string the argument list is built (no error) and
\* holds exactly one transport flag, the one the transport selects (--rest for
\* every string other than "grpc-rere" and "grpc-adapter"); the list is: program
\* name, insecure flag, transport flag, controller address, worker address,
\* node-config flag (and its value).
C11_OneTransportFlagFixedOrder ==
    build.stage = "built" =>
        /\ Cardinality({i \in DOMAIN build.cmd : build.cmd[i] \in TransportFlags}) = 1
        /\ Len(build.cmd) = 7
        /\ build.cmd[1] = <<"flower-supernode">>
        /\ build.cmd[2] = <<"--insecure">>
        /\ build.cmd[3] = ExpectedFlag(build.options.transport)
        /\ StartsWith(build.cmd[4], "--superlink=")
        /\ StartsWith(build.cmd[5], "--clientappio-api-address=")
        /\ build.cmd[6] = <<"--node-config">>
        /\ build.cmd[7] = as_flag(_build_node_config(build.options))

C11_Witness ==
    /\ build.stage = "built"
    /\ build.options.transport = "grpc"
    /\ build.cmd[3] = <<"--rest">>


(***************************************************************************)
(* _prepare_environment (lines 226-232).  A string is a sequence of        *)
(* fragments in which "/" stands alone; a Path is the sequence of its      *)
(* components, the root "/" first when the path is absolute.  The file     *)
(* system is the set of directories and the set of regular files.          *)
(***************************************************************************)
RECURSIVE SplitParts(_, _, _)
SplitParts(s, cur, acc) ==
    IF s = <<>> THEN (IF cur = <<>> THEN acc ELSE Append(acc, cur))
    ELSE IF Head(s) = "/"
         THEN SplitParts(Tail(s), <<>>, IF cur = <<>> THEN acc ELSE Append(acc, cur))
         ELSE SplitParts(Tail(s), Append(cur, Head(s)), acc)

\* Path(text)
Path(text) ==
    (IF text # <<>> /\ Head(text) = "/" THEN << <<"/">> >> ELSE <<>>)
    \o SplitParts(text, <<>>, <<>>)

RECURSIVE JoinParts(_)
JoinParts(parts) ==
    IF parts = <<>> THEN <<>>
    ELSE IF Len(parts) = 1 THEN parts[1]
    ELSE parts[1] \o <<"/">> \o JoinParts(Tail(parts))

\* str(path)
PathStr(path) ==
    IF path # <<>> /\ path[1] = <<"/">> THEN <<"/">> \o JoinParts(Tail(path))
    ELSE JoinParts(path)

\* path.expanduser(): a leading "~" becomes the home directory
expanduser(path, environ) ==
    IF path # <<>> /\ path[1] = <<"~">> THEN Path(environ["HOME"]) \o Tail(path)
    ELSE path

\* the path and every parent of it
Ancestors(path) == {SubSeq(path, 1, k) : k \in 1..Len(path)}

MkdirNoExistOk(fs, path) ==
    IF path \in fs.files \/ path \in fs.dirs THEN [raised |-> "FileExistsError", fs |-> fs]
    ELSE IF Ancestors(path) \cap fs.files # {} THEN [raised |-> "NotADirectoryError", fs |-> fs]
    ELSE [raised |-> "none", fs |-> [fs EXCEPT !.dirs = @ \cup Ancestors(path)]]

\* path.mkdir(parents=True, exist_ok=True)
mkdir(fs, path) ==
    IF path \in fs.files THEN [raised |-> "FileExistsError", fs |-> fs]
    ELSE IF Ancestors(path) \cap fs.files # {} THEN [raised |-> "NotADirectoryError", fs |-> fs]
    ELSE [raised |-> "none", fs |-> [fs EXCEPT !.dirs = @ \cup Ancestors(path)]]

CidDir(cid) == <<"cid-">> \o IntStr(cid)

\* what one call does: the new file system and what the call returned
_prepare_environment(state_root, cid, environ, fs) ==
    LET flwr_home == Append(expanduser(Path(state_root), environ), CidDir(cid))
        made == mkdir(fs, flwr_home)
    IN  IF made.raised # "none"
        THEN [fs |-> made.fs,
              result |-> [raised |-> made.raised, existed |-> flwr_home \in fs.dirs]]
        ELSE [fs |-> made.fs,
              result |-> [raised |-> "none", existed |-> flwr_home \in fs.dirs,
                          env |-> [k \in DOMAIN environ \cup {"FLWR_HOME"} |->
                                      IF k = "FLWR_HOME" THEN PathStr(flwr_home)
                                      ELSE environ[k]],
                          flwr_home |-> flwr_home]]

DEFAULT_STATE_DIR == <<"/", "tmp", "/", "fedmed-flwr-node">>

StateRoots == {DEFAULT_STATE_DIR, <<"~", "/", "state">>, <<"state", "/">>}

Environs ==
    {[k \in {"HOME"} |-> <<"/", "root">>],
     [k \in {"HOME", "PATH"} |->
         IF k = "HOME" THEN <<"/", "home", "/", "chris">> ELSE <<"/", "usr", "/", "bin">>],
     [k \in {"HOME", "FLWR_HOME"} |->
         IF k = "HOME" THEN <<"/", "root">> ELSE <<"/", "old">>]}

\* the file systems a call can find: nothing there, the root directory there,
\* the node directory there, a regular file in the node directory's place
FileSystems(state_root, cid, environ) ==
    LET root == expanduser(Path(state_root), environ)
        home == Append(root, CidDir(cid))
    IN  {[dirs |-> {<< <<"/">> >>}, files |-> {}],
         [dirs |-> {<< <<"/">> >>} \cup Ancestors(root), files |-> {}],
         [dirs |-> {<< <<"/">> >>} \cup Ancestors(home), files |-> {}],
         [dirs |-> {<< <<"/">> >>} \cup Ancestors(root), files |-> {home}]}

EnvInit ==
    /\ Parked
    /\ build = NotBuilding
    /\ relay = NotRelaying
    /\ \E state_root \in StateRoots, cid \in 0..MaxClients, environ \in Environs :
          \E fs \in FileSystems(state_root, cid, environ) :
              prep = [stage |-> "calling", state_root |-> state_root, cid |-> cid,
                      environ |-> environ, fs |-> fs, results |-> <<>>]

\* how many times in a row the function is called
MaxCalls == 2

CallPrepareEnvironment ==
    /\ prep.stage = "calling"
    /\ Len(prep.results) < MaxCalls
    /\ LET call == _prepare_environment(prep.state_root, prep.cid, prep.environ, prep.fs)
       IN  prep' = [prep EXCEPT !.fs = call.fs, !.results = Append(@, call.result)]
    /\ UNCHANGED <<build, relay, mainVars>>

EnvNext == CallPrepareEnvironment

SpecEnv == EnvInit /\ [][EnvNext]_vars

\* C12: when a call of _prepare_environment succeeds, the next call with the same
\* (state_root, cid) succeeds too and returns the same directory path; every
\* returned environment has the ambient variables with their ambient values,
\* and FLWR_HOME set to the text of the returned path, which is a directory.
C12_PrepareEnvironmentIdempotent ==
    prep.stage = "calling" =>
        /\ \A i \in DOMAIN prep.results :
              (i > 1 /\ prep.results[i - 1].raised = "none") =>
                  /\ prep.results[i].raised = "none"
                  /\ prep.results[i].flwr_home = prep.results[i - 1].flwr_home
                  /\ prep.results[i].existed
        /\ \A i \in DOMAIN prep.results :
              prep.results[i].raised = "none" =>
                  LET r == prep.results[i]
                  IN  /\ DOMAIN r.env = DOMAIN prep.environ \cup {"FLWR_HOME"}
                      /\ \A k \in DOMAIN prep.environ \ {"FLWR_HOME"} :
                            r.env[k] = prep.environ[k]
                      /\ r.env["FLWR_HOME"] = PathStr(r.flwr_home)
                      /\ Path(r.env["FLWR_HOME"]) = r.flwr_home
                      /\ r.flwr_home \in prep.fs.dirs

C12_Witness ==
    /\ prep.stage = "calling"
    /\ Len(prep.results) = 2
    /\ prep.results[1].raised = "none"
    /\ ~prep.results[1].existed
    /\ prep.results[2].raised = "none"
    /\ prep.results[2].existed
    /\ "FLWR_HOME" \in DOMAIN prep.environ
    /\ prep.results[2].env["FLWR_HOME"] # prep.environ["FLWR_HOME"]


\* the step of lines 197-206 that reads the slot: the exit code was 0
ReadsSlot == pc = "check_exit" /\ outcome'.kind = "returned"

\* C13: the slot is written by the stdout relay thread only, and the primary
\* thread reads it (line 199) only when the child has exited and both relay
\* threads have returned at end-of-stream; in particular the stdout relay is
\* not running at the read.
C13_ReadAfterRelaysReachedEOF ==
    [][/\ (metrics' # metrics => stdoutThread = "running" /\ stdoutPipe' = Tail(stdoutPipe))
       /\ (ReadsSlot => /\ \A h \in registered : proc[h].state = "exited"
                        /\ stdoutThread = "finished"
                        /\ stderrThread = "finished")]_vars


(***************************************************************************)
(* A run that no signal interrupts, of a child that writes a sequence of   *)
(* lines fixed in advance and then exits, under fair scheduling of the     *)
(* main thread, the child and the two relay threads.                       *)
(***************************************************************************)
\* longest script: one line more than a dead reader leaves room for
MaxScript == PipeCap + 2

RECURSIVE Scripts(_)
Scripts(n) ==
    IF n = 0 THEN {<<>>}
    ELSE Scripts(n - 1) \cup
         {Append(sc, st) : sc \in {x \in Scripts(n - 1) : Len(x) = n - 1},
                           st \in {"stdout", "stderr"}}

RunInit ==
    /\ MainInit
    /\ build = NotBuilding
    /\ prep = NotPreparing
    /\ relay = NotRelaying
    /\ script \in [scripted : {TRUE}, streams : Scripts(MaxScript)]

MainStep ==
    \/ ArmSignals \/ JsonCheck \/ Validate \/ PrepareEnvironment
    \/ Spawn \/ RegisterChild \/ StartThreads
    \/ WaitChild \/ JoinStdout \/ JoinStderr \/ CheckExit
    \/ Poll \/ FinallyClear
    \/ WriteMetrics \/ RemoveState

ChildStep == ChildWritesStdout \/ ChildWritesStderr \/ ChildFinishes

StdoutThreadStep == StdoutRelay \/ StdoutEOF

StderrThreadStep == StderrRelay \/ StderrEOF

RunNext == MainStep \/ ChildStep \/ StdoutThreadStep \/ StderrThreadStep

RunFairness ==
    /\ WF_vars(MainStep)
    /\ WF_vars(ChildStep)
    /\ WF_vars(StdoutThreadStep)
    /\ WF_vars(StderrThreadStep)

SpecRun == RunInit /\ [][RunNext]_vars /\ RunFairness

\* C14: a run whose threads were started and that waits for the child reaches
\* the point after both joins (line 195), whatever finite sequence of lines the
\* child writes to the two bounded pipes before it exits.
C14_RunReachesAfterJoins == (pc = "wait") ~> (pc = "check_exit")


\* the main thread takes a step of the running sweep (no signal arrives)
SweepStep == InSweep /\ sigCount' = sigCount /\ (tpc' # tpc \/ sweepIdx' # sweepIdx)

\* the running _terminate_process call returns: the loop moves to the next
\* entry, or to line 110
CallReturns == SweepStep /\ tpc \notin {"clear", "idle"} /\ tpc' \in {"poll", "clear"}

\* C15: in _terminate_process a handle found exited is sent nothing and the call
\* returns; otherwise SIGTERM is sent first, SIGKILL is sent only from line 100,
\* which is reached only from the bounded wait that follows the SIGTERM expiring
\* with the child still running, and after line 100 the call returns only when
\* the child has exited; no handle is ever sent SIGKILL without having been
\* sent SIGTERM before.
C15_EscalationOrder ==
    [][/\ \A h \in Procs :
            /\ proc[h].state = "exited" =>
                   (proc'[h].termSent = proc[h].termSent /\ proc'[h].killSent = proc[h].killSent)
            /\ proc'[h].termSent > proc[h].termSent =>
                   (InSweep /\ tpc = "terminate" /\ h = Cur)
            /\ proc'[h].killSent > proc[h].killSent =>
                   (InSweep /\ tpc = "kill" /\ h = Cur /\ proc[h].termSent > 0)
            /\ proc'[h].killSent > 0 => proc'[h].termSent > 0
       /\ (SweepStep /\ tpc = "poll")
              => IF proc[Cur].state = "exited" THEN CallReturns /\ proc' = proc
                 ELSE tpc' = "terminate"
       /\ (SweepStep /\ tpc = "terminate") => tpc' = "wait"
       /\ (SweepStep /\ tpc = "wait")
              => IF proc[Cur].state = "exited" THEN CallReturns /\ proc' = proc
                 ELSE tpc' = "kill" /\ proc[Cur].termSent > 0 /\ proc' = proc
       /\ (SweepStep /\ tpc = "kill") => tpc' = "reap"
       /\ (SweepStep /\ tpc = "reap") => (CallReturns /\ proc[Cur].state = "exited")
       /\ (tpc' = "kill" /\ tpc # "kill") => (SweepStep /\ tpc = "wait")]_vars

\* a child that ignored SIGTERM was killed and reaped: the sweep is at its end
C15_Witness ==
    /\ InSweep /\ tpc = "clear"
    /\ \E h \in Procs : /\ proc[h].termSent = 1
                        /\ proc[h].killSent = 1
                        /\ proc[h].state = "exited"
                        /\ proc[h].returncode = SigkillCode


(***************************************************************************)
(* The program with signals, under fair scheduling of the main thread      *)
(* (the handler runs in it) and with a child that exits once it has been   *)
(* sent SIGKILL.  Nothing is assumed of a child that was sent SIGTERM, of  *)
(* the relay threads, or of the child's own progress.                      *)
(***************************************************************************)
\* the steps of _cleanup_children in the handler and in the finally block
CleanupStep ==
    \/ Poll \/ Terminate \/ WaitReturns \/ WaitTimesOut \/ Kill \/ Reap
    \/ FinallyClear \/ HandlerClearAndExit

SignalFairness ==
    /\ WF_vars(MainStep \/ CleanupStep)
    /\ WF_vars(ChildKilled)

SpecSignal == Init /\ [][Next]_vars /\ SignalFairness

\* C16: once a termination signal has been delivered, the program exits.
C16_SignalLeadsToExit == (sigCount > 0) ~> (pc = "done")

\* a signal arrived while the main thread waited for the child and the relay
\* threads were reading; the program has exited and the stdout relay never
\* returned
C16_Witness ==
    /\ pc = "done"
    /\ sigCount > 0
    /\ enteredFinally
    /\ stdoutThread = "running"
    /\ outcome.kind = "pending"
    /\ \E h \in Procs : proc[h].killSent > 0


\* C17: the stderr relay has no hook: reading a line from the stderr pipe never
\* changes the slot, also when the line is a well-formed train summary; a run
\* that returns, and whose child wrote a train summary to stderr and none to
\* stdout, returns the fallback record.
C17_StderrNeverCaptured ==
    [][/\ (stderrPipe # <<>> /\ stderrPipe' = Tail(stderrPipe)) => metrics' = metrics
       /\ (outcome'.kind = "returned" /\ lastTrain' = None /\ relayed'.errTrain # None)
              => outcome'.value = Fallback(options.cid)]_vars

\* the child wrote a train summary to stderr only, exited 0, and the program
\* wrote the fallback record
C17_Witness ==
    /\ pc = "done" /\ exitStatus = 0
    /\ lastTrain = None
    /\ relayed.errTrain = TrainPayload(<<SUMMARY_TOKEN, TRAIN2, "\n">>)
    /\ relayed.errTrain # None
    /\ outcome.kind = "returned"
    /\ metricsFile = <<Fallback(options.cid)>>


(***************************************************************************)
(* _stream_lines (lines 131-139) on its own: a stream that yields the      *)
(* lines of `input` and then end-of-file, the printed lines, and the calls *)
(* of the hook.  The hook is _capture, the only hook the program passes.   *)
(***************************************************************************)
RECURSIVE Streams(_)
Streams(n) ==
    IF n = 0 THEN {<<>>}
    ELSE Streams(n - 1) \cup
         {Append(st, raw) : st \in {x \in Streams(n - 1) : Len(x) = n - 1},
                            raw \in StdoutLines}

\* print(f"[{prefix}] {line}")
SinkWrite(prefix, line) == <<"[", prefix, "] ">> \o line

RelayInit ==
    /\ Parked
    /\ build = NotBuilding
    /\ prep = NotPreparing
    /\ \E input \in Streams(MaxLines), hooked \in BOOLEAN :
          relay = [stage |-> "reading", input |-> input, stream |-> input,
                   hooked |-> hooked, sink |-> <<>>, hookCalls |-> <<>>, slot |-> None]

\* line 134-138: readline() returned a line
RelayLine ==
    /\ relay.stage = "reading"
    /\ relay.stream # <<>>
    /\ LET line == rstrip(Head(relay.stream))
           r == _capture(relay.slot, line)
       IN  relay' = [relay EXCEPT
                        !.stream = Tail(@),
                        !.sink = Append(@, SinkWrite("supernode", line)),
                        !.hookCalls = IF relay.hooked THEN Append(@, line) ELSE @,
                        !.slot = IF relay.hooked THEN r.metrics ELSE @,
                        !.stage = IF relay.hooked /\ r.raised THEN "raised" ELSE @]
    /\ UNCHANGED <<build, prep, mainVars>>

\* line 134 and 139: readline() returned "", the stream is closed, the call returns
RelayEOF ==
    /\ relay.stage = "reading"
    /\ relay.stream = <<>>
    /\ relay' = [relay EXCEPT !.stage = "returned"]
    /\ UNCHANGED <<build, prep, mainVars>>

RelayNext == RelayLine \/ RelayEOF

SpecRelay == RelayInit /\ [][RelayNext]_vars

\* the lines read so far
Consumed == Len(relay.input) - Len(relay.stream)

\* C18: _stream_lines prints the lines of the stream in stream order, one sink
\* write per line read, calls the hook (when there is one) once per line read
\* with the trimmed line that was printed, and ends only by returning, at
\* end-of-file: then all N lines were printed (none for an empty stream).
C18_RelayWritesEveryLine ==
    relay.stage # "idle" =>
        /\ Len(relay.sink) = Consumed
        /\ \A i \in 1..Consumed :
              relay.sink[i] = SinkWrite("supernode", rstrip(relay.input[i]))
        /\ Len(relay.hookCalls) = IF relay.hooked THEN Consumed ELSE 0
        /\ \A i \in DOMAIN relay.hookCalls : relay.hookCalls[i] = rstrip(relay.input[i])
        /\ relay.stage # "reading" =>
              /\ relay.stage = "returned"
              /\ relay.stream = <<>>
              /\ Len(relay.sink) = Len(relay.input)


C20_RegistryHoldsSpawnedHandles ==
    [][/\ pc' = "spawn" => CHILDREN' = <<>>
       /\ CHILDREN' # CHILDREN =>
              \/ /\ pc = "register"
                 /\ \E h \in Procs : /\ CHILDREN' = Append(CHILDREN, h)
                                     /\ proc[h].state # "none"
                                     /\ h \notin registered
              \/ /\ InSweep /\ tpc = "clear"
                 /\ CHILDREN' = <<>>
       /\ \A i, j \in DOMAIN CHILDREN' : CHILDREN'[i] = CHILDREN'[j] => i = j
       /\ \A i \in DOMAIN CHILDREN' : proc'[CHILDREN'[i]].state # "none"
       /\ \A h \in Procs :
              (proc'[h].state # "none" /\ pc' # "register") => h \in registered']_vars

====
